---------------------------- MODULE Spec2Model ----------------------------
(***************************************************************************)
(* Model of the SCATTER Finish and Duration Variance tool:                 *)
(*   run_visualization.main  ->  create_interactive_scatter_plot           *)
(*                           ->  generate_excel_by_categories              *)
(* The run is one sequential pass; pc is the position of the run in the   *)
(* source.  Numbers are modelled as integers (the code only compares them  *)
(* with 0, 10 and 20 and with each other), text cells as sequences of      *)
(* characters, and a missing value as NaN.  The labels of the source that  *)
(* contain the sign "less than or equal" are written with "<=".            *)
(***************************************************************************)
EXTENDS Integers, Sequences, FiniteSets, TLC

\* ------------------------------------------------------------------ bounds
MaxRows == 2

\* ------------------------------------------------------------------- cells
Num(n) == [k |-> "num", v |-> n, s |-> <<>>]
Str(t) == [k |-> "str", v |-> 0, s |-> t]
NaN == [k |-> "nan", v |-> 0, s |-> <<>>]

Digits == {"0", "1", "2", "3", "4", "5", "6", "7", "8", "9"}

DigitVal(c) ==
    CASE c = "0" -> 0 [] c = "1" -> 1 [] c = "2" -> 2 [] c = "3" -> 3
      [] c = "4" -> 4 [] c = "5" -> 5 [] c = "6" -> 6 [] c = "7" -> 7
      [] c = "8" -> 8 [] c = "9" -> 9

RECURSIVE ParseDigits(_)
ParseDigits(t) ==
    IF t = <<>> THEN 0
    ELSE 10 * ParseDigits(SubSeq(t, 1, Len(t) - 1)) + DigitVal(t[Len(t)])

AllDigits(t) == Len(t) > 0 /\ \A i \in 1..Len(t) : t[i] \in Digits

\* pd.to_numeric(..., errors='coerce') on one cell: a number stays, a text
\* that reads as a (signed) number becomes that number, anything else NaN.
to_numeric(c) ==
    IF c.k = "num" THEN c
    ELSE IF c.k = "str" /\ AllDigits(c.s) THEN Num(ParseDigits(c.s))
    ELSE IF c.k = "str" /\ Len(c.s) > 1 /\ c.s[1] = "-" /\ AllDigits(Tail(c.s))
         THEN Num(0 - ParseDigits(Tail(c.s)))
    ELSE NaN

\* comparisons of a numeric column with a constant; a NaN compares False
Le(c, n) == c.k = "num" /\ c.v <= n
Lt(c, n) == c.k = "num" /\ c.v < n
Gt(c, n) == c.k = "num" /\ c.v > n

\* ------------------------------------------------------------ column names
COL_ID == "Activity ID"
COL_NAME == "Activity Name"
COL_STATUS == "Activity Status"
COL_FD == "Variance - BL Project Finish Date"
COL_DUR == "Variance - BL Project Duration"
COL_TF == "Total Float"
COL_CATEGORY == "Category"
COL_TOOLTIP == "tooltip_text"

RequiredColumns == {COL_ID, COL_NAME, COL_STATUS, COL_FD, COL_DUR, COL_TF}

\* ------------------------------------------------------------ bucket labels
TF_LE_0 == "Total Float <= 0"
TF_0_10 == "0 < Total Float <= 10"
TF_10_20 == "10 < Total Float <= 20"
TF_GT_20 == "Total Float > 20"

category_order == <<TF_LE_0, TF_0_10, TF_10_20, TF_GT_20>>
Buckets == {TF_LE_0, TF_0_10, TF_10_20, TF_GT_20}

\* --------------------------------------------------------- quadrant labels
Q_ES == "Earlier and shorter"
Q_EL == "Earlier but longer"
Q_LS == "Later but shorter"
Q_LL == "Later and longer"
QuadrantNames == {Q_ES, Q_EL, Q_LS, Q_LL}

\* ------------------------------------------------------------------ inputs
\* The rows an input file is drawn from: one slice varies Total Float over
\* the thresholds and over text cells, one varies the two variances over
\* the signs, one varies the status.
InRow(st, fd, dur, tf) == [status |-> st, fd |-> fd, dur |-> dur, tf |-> tf]

FloatSlice ==
    {InRow("In Progress", Num(0 - 3), Num(0 - 5), tf) :
        tf \in {Num(0 - 2), Num(0), Num(1), Num(10), Num(11), Num(20), Num(21),
                Str(<<"1", "5">>), Str(<<"T", "B", "D">>)}}

VarianceSlice ==
    {InRow("Not Started", Num(2), Num(0 - 1), Num(5)),
     InRow("Not Started", Num(0 - 3), Num(4), Num(5)),
     InRow("Not Started", Num(2), Str(<<"4">>), Num(5)),
     InRow("Not Started", Num(0), Num(0 - 5), Num(5)),
     InRow("Not Started", Str(<<"-", "3">>), Num(0), Num(5)),
     InRow("Not Started", Str(<<"n", "/", "a">>), Num(4), Num(5)),
     InRow("Not Started", Num(2), NaN, Num(5))}

StatusSlice ==
    {InRow("Completed", Num(2), Num(0 - 1), Num(0)),
     InRow("completed", Num(2), Num(0 - 1), Num(25))}

InputRows == FloatSlice \cup VarianceSlice \cup StatusSlice

InputFrames == UNION {[1..n -> InputRows] : n \in 0..MaxRows}

\* the input has all required columns, or lacks one of them
InputColumnSets == {RequiredColumns} \cup {RequiredColumns \ {c} : c \in RequiredColumns}

VARIABLES
    file_exists,     \* os.path.exists(args.excel)
    no_excel,        \* args.no_excel
    apply_probe,     \* how DataFrame.apply probes the function on an empty frame
    columns,         \* df.columns of the input file
    df,              \* the rows of the input file
    pc,              \* position of the run
    filtered_df,     \* rows of filtered_df, each with its index label
    fcolumns,        \* filtered_df.columns
    Category,        \* the 'Category' column of filtered_df, by position
    category_counts, \* filtered_df['Category'].value_counts()
    quad_annotations,\* the four quadrant-name annotations of the figure
    info_text,       \* the summary annotation of the figure
    quadrants,       \* the quadrant analysis
    sheets,          \* the spreadsheet on disk
    statistics,      \* the dictionary returned with the figure
    fig_returned,    \* create_interactive_scatter_plot returned a figure
    html_written,    \* fig.write_html was done
    error,           \* the exception that ended the run
    reported         \* "Error: File ... not found." was printed

vars == <<file_exists, no_excel, apply_probe, columns, df, pc, filtered_df,
          fcolumns, Category, category_counts, quad_annotations, info_text,
          quadrants, sheets, statistics, fig_returned, html_written, error,
          reported>>

inputs == <<file_exists, no_excel, apply_probe, columns, df>>

None == "None"

NoCounts == [b \in Buckets |-> 0]
NoInfo == [present |-> FALSE, total |-> 0, counts |-> NoCounts]
NoQuadrants == [q \in QuadrantNames |-> <<>>]
NoSheets == [written |-> FALSE, columns |-> {}, data |-> [b \in Buckets |-> <<>>]]
NoStatistics ==
    [total_activities |-> 0, min_x |-> NaN, max_x |-> NaN, min_y |-> NaN,
     max_y |-> NaN, category_distribution |-> <<>>, excel_generated |-> FALSE]

Init ==
    /\ file_exists \in BOOLEAN
    /\ no_excel \in BOOLEAN
    /\ apply_probe \in {"empty_series", "column_series"}
    /\ columns \in InputColumnSets
    /\ df \in InputFrames
    \* a file that does not exist has no content
    /\ ~file_exists => (df = <<>> /\ columns = RequiredColumns
                        /\ apply_probe = "empty_series")
    /\ pc = "main"
    /\ filtered_df = <<>>
    /\ fcolumns = {}
    /\ Category = <<>>
    /\ category_counts = <<>>
    /\ quad_annotations = {}
    /\ info_text = NoInfo
    /\ quadrants = NoQuadrants
    /\ sheets = NoSheets
    /\ statistics = NoStatistics
    /\ fig_returned = FALSE
    /\ html_written = FALSE
    /\ error = None
    /\ reported = FALSE

\* ------------------------------------------------------ run_visualization
\* MainFileMissing without its return: the run goes on to the analysis
MainFileMissing_NoReturn ==
    /\ pc = "main"
    /\ ~file_exists
    /\ reported' = TRUE
    /\ pc' = "load"
    /\ UNCHANGED <<inputs, filtered_df, fcolumns, Category, category_counts,
                   quad_annotations, info_text, quadrants, sheets, statistics,
                   fig_returned, html_written, error>>

\* main, lines 38-41: the input file does not exist
MainFileMissing ==
    /\ pc = "main"
    /\ ~file_exists
    /\ reported' = TRUE
    /\ pc' = "done"
    /\ UNCHANGED <<inputs, filtered_df, fcolumns, Category, category_counts,
                   quad_annotations, info_text, quadrants, sheets, statistics,
                   fig_returned, html_written, error>>

\* main, lines 43-52: call create_interactive_scatter_plot
MainCall ==
    /\ pc = "main"
    /\ file_exists
    /\ pc' = "load"
    /\ UNCHANGED <<inputs, filtered_df, fcolumns, Category, category_counts,
                   quad_annotations, info_text, quadrants, sheets, statistics,
                   fig_returned, html_written, error, reported>>

\* an exception nobody catches ends the run
Raise(e) ==
    /\ error' = e
    /\ pc' = "aborted"
    /\ UNCHANGED <<inputs, filtered_df, fcolumns, Category, category_counts,
                   quad_annotations, info_text, quadrants, sheets, statistics,
                   fig_returned, html_written, reported>>

\* ------------------------------------------------------- scatter_analysis
\* a row of the input with its index label
Indexed(i) ==
    [idx |-> i, status |-> df[i].status, fd |-> df[i].fd, dur |-> df[i].dur,
     tf |-> df[i].tf]

NotCompleted(r) == r.status # "Completed"

\* df[df['Activity Status'] != 'Completed'].copy()
FilterStatus ==
    LET all == [i \in 1..Len(df) |-> Indexed(i)]
    IN  SelectSeq(all, NotCompleted)

\* lines 89-98
LoadFilter ==
    /\ pc = "load"
    /\ COL_STATUS \in columns
    /\ filtered_df' = FilterStatus
    /\ fcolumns' = columns
    /\ pc' = "coerce"
    /\ UNCHANGED <<inputs, Category, category_counts, quad_annotations,
                   info_text, quadrants, sheets, statistics, fig_returned,
                   html_written, error, reported>>

\* line 94: df['Activity Status'] on a file without that column
LoadKeyError ==
    /\ pc = "load"
    /\ COL_STATUS \notin columns
    /\ Raise("KeyError")

\* lines 101-103
CoerceRow(r) ==
    [r EXCEPT !.fd = to_numeric(r.fd), !.dur = to_numeric(r.dur),
              !.tf = to_numeric(r.tf)]

\* HasAllNumbers with 'Total Float' left out of the subset
HasAllNumbers_NoFloat(r) == r.fd.k = "num" /\ r.dur.k = "num"

\* the rows dropna(subset=[...]) keeps
HasAllNumbers(r) == r.fd.k = "num" /\ r.dur.k = "num" /\ r.tf.k = "num"

\* line 106
dropna(rows) == SelectSeq(rows, HasAllNumbers)

\* lines 101-112
Coerce ==
    /\ pc = "coerce"
    /\ {COL_FD, COL_DUR, COL_TF} \subseteq fcolumns
    /\ filtered_df' = dropna([i \in 1..Len(filtered_df) |-> CoerceRow(filtered_df[i])])
    /\ pc' = "categorize"
    /\ UNCHANGED <<inputs, fcolumns, Category, category_counts,
                   quad_annotations, info_text, quadrants, sheets, statistics,
                   fig_returned, html_written, error, reported>>

\* lines 101-103: one of the three numeric columns is not in the file
CoerceKeyError ==
    /\ pc = "coerce"
    /\ ~({COL_FD, COL_DUR, COL_TF} \subseteq fcolumns)
    /\ Raise("KeyError")

\* categorize_float with a strict first comparison
categorize_float_Strict(total_float) ==
    IF Lt(total_float, 0) THEN TF_LE_0
    ELSE IF Le(total_float, 10) THEN TF_0_10
    ELSE IF Le(total_float, 20) THEN TF_10_20
    ELSE TF_GT_20

\* lines 115-123
categorize_float(total_float) ==
    IF Le(total_float, 0) THEN TF_LE_0
    ELSE IF Le(total_float, 10) THEN TF_0_10
    ELSE IF Le(total_float, 20) THEN TF_10_20
    ELSE TF_GT_20

\* value_counts that lists every bucket, also those that do not occur
value_counts_AllBuckets(col) ==
    [b \in Buckets |-> Cardinality({i \in 1..Len(col) : col[i] = b})]

\* Series.value_counts(): the values that occur, each with its count
value_counts(col) ==
    [b \in {col[i] : i \in 1..Len(col)} |->
        Cardinality({i \in 1..Len(col) : col[i] = b})]

\* lines 125-147
Categorize ==
    /\ pc = "categorize"
    /\ Category' = [i \in 1..Len(filtered_df) |-> categorize_float(filtered_df[i].tf)]
    /\ fcolumns' = fcolumns \cup {COL_CATEGORY}
    /\ category_counts' = value_counts(Category')
    /\ pc' = "tooltip"
    /\ UNCHANGED <<inputs, filtered_df, quad_annotations, info_text,
                   quadrants, sheets, statistics, fig_returned, html_written,
                   error, reported>>

\* the columns the tooltip lambda reads from a row, lines 151-156
TooltipColumns == {COL_ID, COL_NAME, COL_STATUS, COL_DUR, COL_FD, COL_TF}

\* DataFrame.apply(f, axis=1) on a frame without rows calls f once on a
\* probe row and swallows what it raises: older pandas probes with an empty
\* Series (every lookup fails), newer pandas with a Series indexed by the
\* columns.  When the probe returns a string the result is an empty Series,
\* otherwise a copy of the frame, which cannot be assigned to one column.
ProbeSucceeds ==
    /\ apply_probe = "column_series"
    /\ TooltipColumns \subseteq fcolumns

\* lines 150-158
Tooltip ==
    /\ pc = "tooltip"
    /\ \/ Len(filtered_df) > 0 /\ TooltipColumns \subseteq fcolumns
       \/ Len(filtered_df) = 0 /\ ProbeSucceeds
    /\ fcolumns' = fcolumns \cup {COL_TOOLTIP}
    /\ pc' = "plot"
    /\ UNCHANGED <<inputs, filtered_df, Category, category_counts,
                   quad_annotations, info_text, quadrants, sheets, statistics,
                   fig_returned, html_written, error, reported>>

\* lines 151-152: row['Activity ID'] or row['Activity Name'] on a real row
TooltipKeyError ==
    /\ pc = "tooltip"
    /\ Len(filtered_df) > 0
    /\ ~(TooltipColumns \subseteq fcolumns)
    /\ Raise("KeyError")

\* line 150: no rows, apply returned a frame, the assignment is refused
TooltipValueError ==
    /\ pc = "tooltip"
    /\ Len(filtered_df) = 0
    /\ ~ProbeSucceeds
    /\ Raise("ValueError")

\* Series.min() and Series.max() skip NaN and give NaN on an empty column
NumValues(col) == {col[i].v : i \in {j \in 1..Len(col) : col[j].k = "num"}}

ColMin(col) ==
    IF NumValues(col) = {} THEN NaN
    ELSE Num(CHOOSE m \in NumValues(col) : \A n \in NumValues(col) : m <= n)

ColMax(col) ==
    IF NumValues(col) = {} THEN NaN
    ELSE Num(CHOOSE m \in NumValues(col) : \A n \in NumValues(col) : m >= n)

XColumn == [i \in 1..Len(filtered_df) |-> filtered_df[i].fd]
YColumn == [i \in 1..Len(filtered_df) |-> filtered_df[i].dur]

\* c * 0.9, kept exact by counting the product in tenths
Times09(c) == IF c.k = "num" THEN Num(9 * c.v) ELSE NaN

\* lines 203-243: the four quadrant-name annotations, x and y in tenths
QuadrantAnnotations ==
    {[text |-> Q_ES, x |-> Times09(ColMax(XColumn)), y |-> Times09(ColMax(YColumn))],
     [text |-> Q_LS, x |-> Times09(ColMin(XColumn)), y |-> Times09(ColMax(YColumn))],
     [text |-> Q_EL, x |-> Times09(ColMax(XColumn)), y |-> Times09(ColMin(YColumn))],
     [text |-> Q_LL, x |-> Times09(ColMin(XColumn)), y |-> Times09(ColMin(YColumn))]}

\* InfoText that counts the rows of the input instead of the cleaned ones
InfoText_RawTotal ==
    LET m0(r) == Le(r.tf, 0)
        m1(r) == Gt(r.tf, 0) /\ Le(r.tf, 10)
        m2(r) == Gt(r.tf, 10) /\ Le(r.tf, 20)
        m3(r) == Gt(r.tf, 20)
    IN  [present |-> TRUE,
         total |-> Len(df),
         counts |-> (TF_LE_0 :> Len(SelectSeq(filtered_df, m0))) @@
                    (TF_0_10 :> Len(SelectSeq(filtered_df, m1))) @@
                    (TF_10_20 :> Len(SelectSeq(filtered_df, m2))) @@
                    (TF_GT_20 :> Len(SelectSeq(filtered_df, m3)))]

\* lines 279-285
InfoText ==
    LET m0(r) == Le(r.tf, 0)
        m1(r) == Gt(r.tf, 0) /\ Le(r.tf, 10)
        m2(r) == Gt(r.tf, 10) /\ Le(r.tf, 20)
        m3(r) == Gt(r.tf, 20)
    IN  [present |-> TRUE,
         total |-> Len(filtered_df),
         counts |-> (TF_LE_0 :> Len(SelectSeq(filtered_df, m0))) @@
                    (TF_0_10 :> Len(SelectSeq(filtered_df, m1))) @@
                    (TF_10_20 :> Len(SelectSeq(filtered_df, m2))) @@
                    (TF_GT_20 :> Len(SelectSeq(filtered_df, m3)))]

\* lines 161-300
Plot ==
    /\ pc = "plot"
    /\ quad_annotations' = QuadrantAnnotations
    /\ info_text' = InfoText
    /\ pc' = "quadrants"
    /\ UNCHANGED <<inputs, filtered_df, fcolumns, Category, category_counts,
                   quadrants, sheets, statistics, fig_returned, html_written,
                   error, reported>>

\* QuadrantFrames that takes a duration variance of zero as shorter
QuadrantFrames_ZeroShorter(frame) ==
    LET es(r) == Lt(r.fd, 0) /\ Le(r.dur, 0)
        el(r) == Lt(r.fd, 0) /\ Gt(r.dur, 0)
        ls(r) == Gt(r.fd, 0) /\ Le(r.dur, 0)
        ll(r) == Gt(r.fd, 0) /\ Gt(r.dur, 0)
    IN  (Q_ES :> SelectSeq(frame, es)) @@
        (Q_EL :> SelectSeq(frame, el)) @@
        (Q_LS :> SelectSeq(frame, ls)) @@
        (Q_LL :> SelectSeq(frame, ll))

\* lines 304-313
QuadrantFrames(frame) ==
    LET es(r) == Lt(r.fd, 0) /\ Lt(r.dur, 0)
        el(r) == Lt(r.fd, 0) /\ Gt(r.dur, 0)
        ls(r) == Gt(r.fd, 0) /\ Lt(r.dur, 0)
        ll(r) == Gt(r.fd, 0) /\ Gt(r.dur, 0)
    IN  (Q_ES :> SelectSeq(frame, es)) @@
        (Q_EL :> SelectSeq(frame, el)) @@
        (Q_LS :> SelectSeq(frame, ls)) @@
        (Q_LL :> SelectSeq(frame, ll))

\* lines 303-318
Quadrants ==
    /\ pc = "quadrants"
    /\ quadrants' = QuadrantFrames(filtered_df)
    /\ pc' = "excel"
    /\ UNCHANGED <<inputs, filtered_df, fcolumns, Category, category_counts,
                   quad_annotations, info_text, sheets, statistics,
                   fig_returned, html_written, error, reported>>

\* generate_excel_by_categories whose second sheet stops short of 10
generate_excel_by_categories_Gap(frame, cols) ==
    LET df_tf_0(r) == Le(r.tf, 0)
        df_tf_0_10(r) == Gt(r.tf, 0) /\ Lt(r.tf, 10)
        df_tf_10_20(r) == Gt(r.tf, 10) /\ Le(r.tf, 20)
        df_tf_20(r) == Gt(r.tf, 20)
    IN  [written |-> TRUE,
         columns |-> cols,
         data |-> (TF_LE_0 :> SelectSeq(frame, df_tf_0)) @@
                  (TF_0_10 :> SelectSeq(frame, df_tf_0_10)) @@
                  (TF_10_20 :> SelectSeq(frame, df_tf_10_20)) @@
                  (TF_GT_20 :> SelectSeq(frame, df_tf_20))]

\* lines 38-55: the four sheets, each with the columns of the frame it is
\* given.  to_excel(index=False) does not write the index label; the model
\* keeps it in the rows to tell records with equal cells apart.
generate_excel_by_categories(frame, cols) ==
    LET df_tf_0(r) == Le(r.tf, 0)
        df_tf_0_10(r) == Gt(r.tf, 0) /\ Le(r.tf, 10)
        df_tf_10_20(r) == Gt(r.tf, 10) /\ Le(r.tf, 20)
        df_tf_20(r) == Gt(r.tf, 20)
    IN  [written |-> TRUE,
         columns |-> cols,
         data |-> (TF_LE_0 :> SelectSeq(frame, df_tf_0)) @@
                  (TF_0_10 :> SelectSeq(frame, df_tf_0_10)) @@
                  (TF_10_20 :> SelectSeq(frame, df_tf_10_20)) @@
                  (TF_GT_20 :> SelectSeq(frame, df_tf_20))]

\* lines 320-331 with generate_excel = True
ExcelExport ==
    /\ pc = "excel"
    /\ ~no_excel
    /\ sheets' = generate_excel_by_categories(filtered_df, fcolumns)
    /\ pc' = "return"
    /\ UNCHANGED <<inputs, filtered_df, fcolumns, Category, category_counts,
                   quad_annotations, info_text, quadrants, statistics,
                   fig_returned, html_written, error, reported>>

\* lines 320-322 with generate_excel = False
ExcelSkip ==
    /\ pc = "excel"
    /\ no_excel
    /\ pc' = "return"
    /\ UNCHANGED <<inputs, filtered_df, fcolumns, Category, category_counts,
                   quad_annotations, info_text, quadrants, sheets, statistics,
                   fig_returned, html_written, error, reported>>

\* lines 334-342
Return ==
    /\ pc = "return"
    /\ statistics' =
          [total_activities |-> Len(filtered_df),
           min_x |-> ColMin(XColumn), max_x |-> ColMax(XColumn),
           min_y |-> ColMin(YColumn), max_y |-> ColMax(YColumn),
           category_distribution |-> category_counts,
           excel_generated |-> sheets.written]
    /\ fig_returned' = TRUE
    /\ pc' = "write_html"
    /\ UNCHANGED <<inputs, filtered_df, fcolumns, Category, category_counts,
                   quad_annotations, info_text, quadrants, sheets,
                   html_written, error, reported>>

\* main, lines 54-67
WriteHtml ==
    /\ pc = "write_html"
    /\ html_written' = TRUE
    /\ pc' = "done"
    /\ UNCHANGED <<inputs, filtered_df, fcolumns, Category, category_counts,
                   quad_annotations, info_text, quadrants, sheets, statistics,
                   fig_returned, error, reported>>

Next ==
    \/ MainFileMissing
    \/ MainCall
    \/ LoadFilter
    \/ LoadKeyError
    \/ Coerce
    \/ CoerceKeyError
    \/ Categorize
    \/ Tooltip
    \/ TooltipKeyError
    \/ TooltipValueError
    \/ Plot
    \/ Quadrants
    \/ ExcelExport
    \/ ExcelSkip
    \/ Return
    \/ WriteHtml

Spec == Init /\ [][Next]_vars

TypeOK ==
    /\ pc \in {"main", "load", "coerce", "categorize", "tooltip", "plot",
               "quadrants", "excel", "return", "write_html", "done", "aborted"}
    /\ error \in {None, "KeyError", "ValueError"}
    /\ Len(Category) \in {0, Len(filtered_df)}

\* ------------------------------------------------------------ the claims
\* the positions of the run at which the load/clean stage is complete
CleanDone ==
    \/ pc \in {"categorize", "tooltip", "plot", "quadrants", "excel",
               "return", "write_html", "done"} /\ file_exists
    \/ pc = "aborted" /\ COL_CATEGORY \in fcolumns

\* the texts of the input cells that read as numbers
NumericTexts == {<<"1", "5">>, <<"4">>, <<"-", "3">>}
IsNumberCell(c) == c.k = "num" \/ (c.k = "str" /\ c.s \in NumericTexts)

\* an input row that belongs to the cleaned set
Admissible(row) ==
    /\ row.status # "Completed"
    /\ IsNumberCell(row.fd) /\ IsNumberCell(row.dur) /\ IsNumberCell(row.tf)

AdmissibleIdx == {i \in 1..Len(df) : Admissible(df[i])}

Range(f) == {f[i] : i \in DOMAIN f}
IdxOf(rows) == {rows[i].idx : i \in 1..Len(rows)}

RECURSIVE SumOver(_, _)
SumOver(f, S) ==
    IF S = {} THEN 0
    ELSE LET x == CHOOSE y \in S : TRUE IN f[x] + SumOver(f, S \ {x})

\* C1: every cleaned row carries the bucket label of the threshold rule for
\* its Total Float v: v <= 0, 0 < v <= 10, 10 < v <= 20, v > 20; the
\* boundaries 0, 10 and 20 fall in the lower bucket.
C1_BucketRule ==
    \A i \in 1..Len(Category) :
        LET v == filtered_df[i].tf.v
            label == Category[i]
        IN  /\ filtered_df[i].tf.k = "num"
            /\ label \in Buckets
            /\ (v <= 0) <=> (label = TF_LE_0)
            /\ (0 < v /\ v <= 10) <=> (label = TF_0_10)
            /\ (10 < v /\ v <= 20) <=> (label = TF_10_20)
            /\ (v > 20) <=> (label = TF_GT_20)

C1_Witness ==
    /\ Len(Category) = 2
    /\ \E i, j \in 1..Len(Category) :
          /\ filtered_df[i].tf = Num(10) /\ Category[i] = TF_0_10
          /\ filtered_df[j].tf = Num(20) /\ Category[j] = TF_10_20

\* C2: once the load/clean stage is done, every row of the cleaned set, of
\* every quadrant and of every exported sheet is an input row whose status
\* is not exactly 'Completed' and whose three numeric fields are numbers; a
\* 'completed' row with numbers is kept; no count exceeds the number of
\* such rows.
C2_CleanedOnlyAdmissible ==
    CleanDone =>
        /\ IdxOf(filtered_df) \subseteq AdmissibleIdx
        /\ \A b \in Buckets : IdxOf(sheets.data[b]) \subseteq AdmissibleIdx
        /\ \A q \in QuadrantNames : IdxOf(quadrants[q]) \subseteq AdmissibleIdx
        /\ \A i \in 1..Len(df) :
              (df[i].status = "completed" /\ Admissible(df[i]))
                  => i \in IdxOf(filtered_df)
        /\ info_text.total <= Cardinality(AdmissibleIdx)
        /\ SumOver(info_text.counts, Buckets) <= Cardinality(AdmissibleIdx)
        /\ SumOver(category_counts, DOMAIN category_counts) <= Cardinality(AdmissibleIdx)
        /\ statistics.total_activities <= Cardinality(AdmissibleIdx)

C2_Witness ==
    /\ pc = "done"
    /\ sheets.written
    /\ Len(df) = 2
    /\ \E i, j \in 1..Len(df) :
          /\ df[i].status = "Completed"
          /\ df[j].status = "completed"
    /\ Len(filtered_df) = 1

\* C3: the four sheets partition the cleaned record set: every cleaned
\* record is in exactly one sheet, once, and a sheet holds cleaned records
\* only.
C3_SheetsPartition ==
    sheets.written =>
        /\ \A i \in 1..Len(filtered_df) :
              Cardinality({<<b, k>> \in Buckets \X (1..Len(filtered_df)) :
                             /\ k <= Len(sheets.data[b])
                             /\ sheets.data[b][k] = filtered_df[i]}) = 1
        /\ \A b \in Buckets : Range(sheets.data[b]) \subseteq Range(filtered_df)

C3_Witness ==
    /\ sheets.written
    /\ Len(filtered_df) = 2
    /\ Len(sheets.data[TF_0_10]) = 1
    /\ Len(sheets.data[TF_10_20]) = 1
    /\ \E i \in 1..2 : filtered_df[i].tf = Num(10)

\* C4: a cleaned record is counted in at most one quadrant, the one of the
\* sign pair (finish-date variance, duration variance); a record with a
\* variance of zero is in none, so the four counts sum to the number of
\* cleaned records with both variances non-zero.
QuadrantsDone ==
    pc \in {"excel", "return", "write_html", "done"} /\ file_exists

InQ(q, r) == \E k \in 1..Len(quadrants[q]) : quadrants[q][k] = r

C5_SheetColumnsAreInputColumns ==
    sheets.written => sheets.columns = columns

\* C6: 'Total activities' of the summary annotation and 'total_activities'
\* of the returned statistics equal the number of cleaned records, and the
\* four per-bucket counts of the annotation sum to it.
C6_TotalActivities ==
    /\ info_text.present =>
          /\ info_text.total = Cardinality(AdmissibleIdx)
          /\ SumOver(info_text.counts, Buckets) = info_text.total
    /\ fig_returned => statistics.total_activities = Cardinality(AdmissibleIdx)

C6_Witness ==
    /\ fig_returned
    /\ info_text.present
    /\ Len(df) = 2
    /\ info_text.total = 1
    /\ info_text.counts[TF_GT_20] = 1

\* C7: with a required column missing the run ends in a lookup error and
\* nothing is produced: no figure, no spreadsheet, no HTML chart.
C7_MissingColumnLookupError ==
    (columns # RequiredColumns /\ pc \in {"done", "aborted"}) =>
        /\ pc = "aborted"
        /\ error = "KeyError"
        /\ ~fig_returned
        /\ ~sheets.written
        /\ ~html_written

\* C8: when the input file does not exist the run reports it and ends:
\* create_interactive_scatter_plot is not entered and nothing is written.
C8_MissingFileReported ==
    ~file_exists =>
        /\ pc \in {"main", "done"}
        /\ (pc = "done") => reported
        /\ fcolumns = {}
        /\ ~info_text.present
        /\ ~fig_returned
        /\ ~sheets.written
        /\ ~html_written
        /\ error = None

C8_Witness == ~file_exists /\ pc = "done" /\ reported /\ ~html_written

\* C9: each quadrant-name annotation that lies inside a quadrant carries the
\* label the quadrant analysis gives to a record plotted at that place.
PlottedAt(x, y) ==
    <<[idx |-> 0, status |-> "", fd |-> x, dur |-> y, tf |-> Num(0)]>>

C9_AnnotationsAgree ==
    \A a \in quad_annotations :
        (Lt(a.x, 0) \/ Gt(a.x, 0)) /\ (Lt(a.y, 0) \/ Gt(a.y, 0))
            => Len(QuadrantFrames(PlottedAt(a.x, a.y))[a.text]) = 1

\* C10: for each bucket, the number of records labelled with it by
\* categorize_float equals the count of the summary annotation and the
\* length of the bucket's sheet; a bucket without records is absent from
\* category_distribution and has count 0 in the annotation.
LabelCount(b) == Cardinality({i \in 1..Len(Category) : Category[i] = b})

C10_BucketingsAgree ==
    /\ info_text.present =>
          /\ \A b \in Buckets : info_text.counts[b] = LabelCount(b)
          /\ DOMAIN category_counts = {b \in Buckets : info_text.counts[b] > 0}
          /\ \A b \in DOMAIN category_counts : category_counts[b] = info_text.counts[b]
    /\ sheets.written =>
          \A b \in Buckets : Len(sheets.data[b]) = LabelCount(b)
    /\ fig_returned =>
          /\ DOMAIN statistics.category_distribution
                = {b \in Buckets : info_text.counts[b] > 0}
          /\ \A b \in DOMAIN statistics.category_distribution :
                statistics.category_distribution[b] = LabelCount(b)

C10_Witness ==
    /\ fig_returned
    /\ sheets.written
    /\ Len(filtered_df) = 2
    /\ DOMAIN statistics.category_distribution = {TF_LE_0, TF_GT_20}
    /\ info_text.counts[TF_0_10] = 0

=============================================================================
